---- MODULE Spec2Model ----
(***************************************************************************)
(* A model of the calculator: the Operation library (app/operation), the   *)
(* Calculation classes and the CalculationFactory registry                 *)
(* (app/calculation), and the interactive session (app/calculator).        *)
(*                                                                         *)
(* Python values are records [t, sg, n, d, s]:                             *)
(*   t = "float": the number sg * n / d (n >= 0, d > 0, lowest terms);     *)
(*                sg is the IEEE sign bit, so 0.0 and -0.0 are distinct    *)
(*   t = "int"  : the integer sg * n (d = 1, zero has sg = 1)              *)
(*   t = "str"  : the text s                                               *)
(*   t = "type" : the class named s                                        *)
(*   t = "none" : None                                                     *)
(* The float operands of the model are integers of the form 2^i * 5^j, so   *)
(* sums and products are exact and every quotient has a short terminating  *)
(* decimal expansion, which is what Python's float repr prints.            *)
(*                                                                         *)
(* Text on which the code works character by character (operation names,   *)
(* class names) is a sequence of one-character strings; Str renders it.    *)
(***************************************************************************)
EXTENDS Integers, Sequences, FiniteSets, TLC

VARIABLES calculations, calc, via, last, seen, memo, loaded,
          stdin, history, stdout, status

\* the interactive session: its input, its history, what it has printed and
\* whether it still runs
session == <<stdin, history, stdout, status>>

vars == <<calculations, calc, via, last, seen, memo, loaded, session>>

-----------------------------------------------------------------------------
(* Bounds *)

\* float operands have magnitude 2^i or 5 * 2^i with i <= MaxExp
MaxExp == 1

\* a session reads at most MaxInput lines or signals before end-of-file
MaxInput == 3

-----------------------------------------------------------------------------
(* Python values *)

RECURSIVE GCD(_, _)
GCD(x, y) == IF y = 0 THEN x ELSE GCD(y, x % y)

None == [t |-> "none", sg |-> 1, n |-> 0, d |-> 1, s |-> ""]

MkFloat(sg, n, d) ==
    LET g == GCD(n, d)
    IN  [t |-> "float", sg |-> sg, n |-> n \div g, d |-> d \div g, s |-> ""]

MkInt(z) ==
    [t |-> "int", sg |-> IF z < 0 THEN -1 ELSE 1,
     n |-> IF z < 0 THEN -z ELSE z, d |-> 1, s |-> ""]

MkStr(s) == [t |-> "str", sg |-> 1, n |-> 0, d |-> 1, s |-> s]

MkType(s) == [t |-> "type", sg |-> 1, n |-> 0, d |-> 1, s |-> s]

IsNumber(v) == v.t \in {"float", "int"}

\* Python's  v == 0  (True for 0, 0.0 and -0.0, False for any str)
EqZero(v) == IsNumber(v) /\ v.n = 0

\* a number as a float (an int operand is converted before float arithmetic)
ToFloat(v) == [v EXCEPT !.t = "float"]

\* the float of magnitude n / d whose sign is that of the exact signed value z,
\* or zsg when the value is zero
FloatOf(z, n, d, zsg) ==
    MkFloat(IF z < 0 THEN -1 ELSE IF z > 0 THEN 1 ELSE zsg, n, d)

Abs(z) == IF z < 0 THEN -z ELSE z

\* an outcome of a call: a returned value or a raised exception
Return(v) == [exc |-> "none", msg |-> "", value |-> v]

Raise(kind, msg) == [exc |-> kind, msg |-> msg, value |-> None]

\* the type name Python puts in a TypeError message
TypeName(v) == v.t

UnsupportedOperand(sym, a, b) ==
    Raise("TypeError",
          "unsupported operand type(s) for " \o sym \o ": '" \o TypeName(a)
              \o "' and '" \o TypeName(b) \o "'")

\* float addition of two numbers: exact for the operands of the model; a zero
\* sum is -0.0 only when both operands are negative zeros
FloatSum(a, b) ==
    LET z == a.sg * a.n * b.d + b.sg * b.n * a.d
    IN  FloatOf(z, Abs(z), a.d * b.d,
                IF a.n = 0 /\ b.n = 0 /\ a.sg = -1 /\ b.sg = -1 THEN -1 ELSE 1)

Negate(v) == [v EXCEPT !.sg = -v.sg]

RECURSIVE Repeat(_, _)
Repeat(s, k) == IF k <= 0 THEN "" ELSE s \o Repeat(s, k - 1)

-----------------------------------------------------------------------------
(* The Operation library *)

\* return a + b
addition(a, b) ==
    IF IsNumber(a) /\ IsNumber(b)
    THEN IF a.t = "int" /\ b.t = "int"
         THEN Return(MkInt(a.sg * a.n + b.sg * b.n))
         ELSE Return(FloatSum(ToFloat(a), ToFloat(b)))
    ELSE IF a.t = "str" /\ b.t = "str"
    THEN Return(MkStr(a.s \o b.s))
    ELSE IF a.t = "str"
    THEN Raise("TypeError",
               "can only concatenate str (not \"" \o TypeName(b) \o "\") to str")
    ELSE UnsupportedOperand("+", a, b)

\* mutant: return b - a
subtraction_commuted(a, b) ==
    IF IsNumber(a) /\ IsNumber(b)
    THEN IF a.t = "int" /\ b.t = "int"
         THEN Return(MkInt(b.sg * b.n - a.sg * a.n))
         ELSE Return(FloatSum(ToFloat(b), Negate(ToFloat(a))))
    ELSE UnsupportedOperand("-", a, b)

\* return a - b
subtraction(a, b) ==
    IF IsNumber(a) /\ IsNumber(b)
    THEN IF a.t = "int" /\ b.t = "int"
         THEN Return(MkInt(a.sg * a.n - b.sg * b.n))
         ELSE Return(FloatSum(ToFloat(a), Negate(ToFloat(b))))
    ELSE UnsupportedOperand("-", a, b)

\* return a * b
multiplication(a, b) ==
    IF IsNumber(a) /\ IsNumber(b)
    THEN IF a.t = "int" /\ b.t = "int"
         THEN Return(MkInt(a.sg * a.n * b.sg * b.n))
         ELSE Return(MkFloat(a.sg * b.sg, a.n * b.n, a.d * b.d))
    ELSE IF a.t = "str" /\ b.t = "int"
    THEN Return(MkStr(Repeat(a.s, b.sg * b.n)))
    ELSE IF a.t = "int" /\ b.t = "str"
    THEN Return(MkStr(Repeat(b.s, a.sg * a.n)))
    ELSE Raise("TypeError",
               "can't multiply sequence by non-int of type '"
                   \o TypeName(IF a.t = "str" THEN b ELSE a) \o "'")

\* mutant: the zero check is made on the dividend
division_checks_dividend(a, b) ==
    IF EqZero(a)
    THEN Raise("ValueError", "Division by zero is not allowed.")
    ELSE IF IsNumber(a) /\ IsNumber(b)
    THEN Return(MkFloat(a.sg * b.sg, a.n * b.d, a.d * b.n))
    ELSE UnsupportedOperand("/", a, b)

\* if b == 0: raise ValueError(...); return a / b
division(a, b) ==
    IF EqZero(b)
    THEN Raise("ValueError", "Division by zero is not allowed.")
    ELSE IF IsNumber(a) /\ IsNumber(b)
    THEN Return(MkFloat(a.sg * b.sg, a.n * b.d, a.d * b.n))
    ELSE UnsupportedOperand("/", a, b)

-----------------------------------------------------------------------------
(* Text *)

UpperCase == <<"A","B","C","D","E","F","G","H","I","J","K","L","M",
               "N","O","P","Q","R","S","T","U","V","W","X","Y","Z">>

LowerCase == <<"a","b","c","d","e","f","g","h","i","j","k","l","m",
               "n","o","p","q","r","s","t","u","v","w","x","y","z">>

\* the lower-case letter of each upper-case letter
ToLower ==
    [c \in {UpperCase[j] : j \in 1..Len(UpperCase)} |->
        LowerCase[CHOOSE j \in 1..Len(UpperCase) : UpperCase[j] = c]]

\* str.lower()
lower(s) ==
    [i \in 1..Len(s) |-> IF s[i] \in DOMAIN ToLower THEN ToLower[s[i]] ELSE s[i]]

\* the text of a character sequence
RECURSIVE Str(_)
Str(s) == IF s = <<>> THEN "" ELSE Head(s) \o Str(Tail(s))

HasPrefix(s, p) == Len(p) <= Len(s) /\ SubSeq(s, 1, Len(p)) = p

\* str.replace(old, ''), old not empty
RECURSIVE Remove(_, _)
Remove(s, old) ==
    IF s = <<>> THEN <<>>
    ELSE IF HasPrefix(s, old)
    THEN Remove(SubSeq(s, Len(old) + 1, Len(s)), old)
    ELSE <<Head(s)>> \o Remove(Tail(s), old)

\* ', '.join(parts), parts a sequence of texts
RECURSIVE Join(_)
Join(parts) ==
    IF parts = <<>> THEN ""
    ELSE IF Len(parts) = 1 THEN parts[1]
    ELSE parts[1] \o ", " \o Join(Tail(parts))

Digit == <<"0","1","2","3","4","5","6","7","8","9">>

\* the decimal digits of a natural number
RECURSIVE Digits(_)
Digits(k) ==
    IF k < 10 THEN Digit[k + 1] ELSE Digits(k \div 10) \o Digit[(k % 10) + 1]

\* the digits after the decimal point of r / d (0 <= r < d), to the 17
\* significant digits a double carries
RECURSIVE Fraction(_, _, _)
Fraction(r, d, k) ==
    IF r = 0 \/ k = 0 THEN ""
    ELSE Digit[((r * 10) \div d) + 1] \o Fraction((r * 10) % d, d, k - 1)

\* the text an f-string puts for {v}: str(v)
Format(v) ==
    IF v.t = "str" THEN v.s
    ELSE IF v.t = "int"
    THEN (IF v.sg < 0 THEN "-" ELSE "") \o Digits(v.n)
    ELSE IF v.t = "float"
    THEN (IF v.sg < 0 THEN "-" ELSE "") \o Digits(v.n \div v.d) \o "."
            \o (IF v.n % v.d = 0 THEN "0" ELSE Fraction(v.n % v.d, v.d, 17))
    ELSE "None"

Whitespace == {" ", "\t"}

RECURSIVE lstrip(_)
lstrip(s) == IF s # <<>> /\ Head(s) \in Whitespace THEN lstrip(Tail(s)) ELSE s

RECURSIVE rstrip(_)
rstrip(s) ==
    IF s # <<>> /\ s[Len(s)] \in Whitespace
    THEN rstrip(SubSeq(s, 1, Len(s) - 1))
    ELSE s

\* str.strip()
strip(s) == rstrip(lstrip(s))

\* the characters of s up to its first whitespace
RECURSIVE Word(_)
Word(s) ==
    IF s = <<>> \/ Head(s) \in Whitespace THEN <<>>
    ELSE <<Head(s)>> \o Word(Tail(s))

\* str.split(): the words between runs of whitespace
RECURSIVE split(_)
split(s) ==
    LET t == lstrip(s)
        w == Word(t)
    IN  IF t = <<>> THEN <<>>
        ELSE <<w>> \o split(SubSeq(t, Len(w) + 1, Len(t)))

\* the value of each decimal digit
DigitValue ==
    [c \in {Digit[j] : j \in 1..Len(Digit)} |->
        (CHOOSE j \in 1..Len(Digit) : Digit[j] = c) - 1]

\* the natural number a sequence of digits writes
RECURSIVE Number(_)
Number(s) ==
    IF s = <<>> THEN 0
    ELSE Number(SubSeq(s, 1, Len(s) - 1)) * 10 + DigitValue[s[Len(s)]]

RECURSIVE Pow10(_)
Pow10(k) == IF k = 0 THEN 1 ELSE 10 * Pow10(k - 1)

\* float(text) for the decimal notation [sign] digits [. digits]; any other
\* text is refused. (Python also reads exponents, underscores, inf and nan:
\* no text of the model is written that way.)
float(text) ==
    LET s == strip(text)
        signed == s # <<>> /\ Head(s) \in {"+", "-"}
        body == IF signed THEN Tail(s) ELSE s
        dots == {i \in 1..Len(body) : body[i] = "."}
        digits == SelectSeq(body, LAMBDA c : c # ".")
        wellFormed == /\ Cardinality(dots) <= 1
                      /\ digits # <<>>
                      /\ \A i \in 1..Len(digits) : digits[i] \in DOMAIN DigitValue
        places == IF dots = {} THEN 0 ELSE Len(body) - (CHOOSE i \in dots : TRUE)
    IN  IF wellFormed
        THEN Return(MkFloat(IF signed /\ Head(s) = "-" THEN -1 ELSE 1,
                            Number(digits), Pow10(places)))
        ELSE Raise("ValueError",
                   "could not convert string to float: '" \o Str(text) \o "'")

-----------------------------------------------------------------------------
(* The Calculation classes *)

Calculation == <<"C","a","l","c","u","l","a","t","i","o","n">>

AddCalculation == <<"A","d","d">> \o Calculation

SubtractCalculation == <<"S","u","b","t","r","a","c","t">> \o Calculation

MultiplyCalculation == <<"M","u","l","t","i","p","l","y">> \o Calculation

DivideCalculation == <<"D","i","v","i","d","e">> \o Calculation

\* the subclass the duplicate-registration test defines
AnotherAddCalculation == <<"A","n","o","t","h","e","r","A","d","d">> \o Calculation

\* a class whose execute fails with a plain Exception: the MockCalculation of
\* test_calculator_unexpected_exception
MockCalculation == <<"M","o","c","k">> \o Calculation

\* Calculation.__init__: self.a = a; self.b = b
New(cls, a, b) == [cls |-> cls, a |-> a, b |-> b]

\* the outcome of a library call made from execute, with the call recorded
Delegate(fn, out) ==
    [exc |-> out.exc, msg |-> out.msg, value |-> out.value, calls |-> <<fn>>]

AddCalculation_execute(self) == Delegate("addition", addition(self.a, self.b))

\* mutant: the operands in the wrong order
SubtractCalculation_execute_swapped(self) ==
    Delegate("subtraction", subtraction(self.b, self.a))

SubtractCalculation_execute(self) ==
    Delegate("subtraction", subtraction(self.a, self.b))

\* mutant: a failure of the library call is caught and raised anew
MultiplyCalculation_execute_wrapping(self) ==
    LET out == multiplication(self.a, self.b)
    IN  IF out.exc = "none" THEN Delegate("multiplication", out)
        ELSE Delegate("multiplication",
                      Raise("ValueError", "Multiplication failed: " \o out.msg))

MultiplyCalculation_execute(self) ==
    Delegate("multiplication", multiplication(self.a, self.b))

\* mutant: no zero-divisor check of its own
DivideCalculation_execute_unguarded(self) ==
    Delegate("division", division(self.a, self.b))

DivideCalculation_execute(self) ==
    IF EqZero(self.b)
    THEN [exc |-> "ZeroDivisionError", msg |-> "Cannot divide by zero.",
          value |-> None, calls |-> <<>>]
    ELSE Delegate("division", division(self.a, self.b))

AnotherAddCalculation_execute(self) ==
    Delegate("addition", addition(self.a, self.b))

MockCalculation_execute(self) ==
    [exc |-> "Exception", msg |-> "Mock exception during execution",
     value |-> None, calls |-> <<>>]

\* self.execute(), dispatched on the class of self
execute(self) ==
    CASE self.cls = AddCalculation -> AddCalculation_execute(self)
      [] self.cls = SubtractCalculation -> SubtractCalculation_execute(self)
      [] self.cls = MultiplyCalculation -> MultiplyCalculation_execute(self)
      [] self.cls = DivideCalculation -> DivideCalculation_execute(self)
      [] self.cls = AnotherAddCalculation -> AnotherAddCalculation_execute(self)
      [] self.cls = MockCalculation -> MockCalculation_execute(self)

\* mutant: the class name is used as the operation name
str_unstripped(self) ==
    LET result == execute(self)
    IN  IF result.exc # "none" THEN result
        ELSE [result EXCEPT !.value =
                 MkStr(Str(self.cls) \o ": " \o Format(self.a) \o " "
                       \o Str(self.cls) \o " " \o Format(self.b)
                       \o " = " \o Format(result.value))]

\* mutant: a failure of execute is caught and a string is produced all the same
str_swallowing(self) ==
    LET result == execute(self)
        operation_name == Remove(self.cls, Calculation)
    IN  [exc |-> "none", msg |-> "", calls |-> result.calls,
         value |-> MkStr(Str(self.cls) \o ": " \o Format(self.a) \o " "
                         \o Str(operation_name) \o " " \o Format(self.b)
                         \o " = " \o Format(result.value))]

\* mutant: a float result is printed without its fraction
str_truncating(self) ==
    LET result == execute(self)
        operation_name == Remove(self.cls, Calculation)
        shown == IF result.value.t = "float"
                 THEN (IF result.value.sg < 0 THEN "-" ELSE "")
                          \o Digits(result.value.n \div result.value.d)
                 ELSE Format(result.value)
    IN  IF result.exc # "none" THEN result
        ELSE [result EXCEPT !.value =
                 MkStr(Str(self.cls) \o ": " \o Format(self.a) \o " "
                       \o Str(operation_name) \o " " \o Format(self.b)
                       \o " = " \o shown)]

\* Calculation.__str__
str(self) ==
    LET result == execute(self)
        operation_name == Remove(self.cls, Calculation)
    IN  IF result.exc # "none" THEN result
        ELSE [result EXCEPT !.value =
                 MkStr(Str(self.cls) \o ": " \o Format(self.a) \o " "
                       \o Str(operation_name) \o " " \o Format(self.b)
                       \o " = " \o Format(result.value))]

\* mutant: __repr__ runs the calculation first, as __str__ does
repr_executing(self) ==
    LET result == execute(self)
    IN  IF result.exc # "none" THEN result
        ELSE [result EXCEPT !.value =
                 MkStr(Str(self.cls) \o "(a=" \o Format(self.a) \o ", b="
                       \o Format(self.b) \o ")")]

\* Calculation.__repr__
repr(self) ==
    [exc |-> "none", msg |-> "", calls |-> <<>>,
     value |-> MkStr(Str(self.cls) \o "(a=" \o Format(self.a) \o ", b="
                     \o Format(self.b) \o ")")]

-----------------------------------------------------------------------------
(* CalculationFactory: the registry _calculations is a dict, modelled as the *)
(* sequence of its items [key, cls] in insertion order                       *)

Keys(dict) == [i \in 1..Len(dict) |-> dict[i].key]

\* key in dict
In(key, dict) == \E i \in 1..Len(dict) : dict[i].key = key

\* dict.get(key): the class, or None
Get(dict, key) ==
    IF In(key, dict)
    THEN dict[CHOOSE i \in 1..Len(dict) : dict[i].key = key].cls
    ELSE <<>>

\* dict[key] = cls: a new key goes last, a bound key keeps its place
Set(dict, key, cls) ==
    IF In(key, dict)
    THEN [i \in 1..Len(dict) |->
             IF dict[i].key = key THEN [key |-> key, cls |-> cls] ELSE dict[i]]
    ELSE Append(dict, [key |-> key, cls |-> cls])

\* mutant: the duplicate check looks the name up as spelled
register_calculation_exact(dict, calculation_type, subclass) ==
    IF In(calculation_type, dict)
    THEN [out |-> Raise("ValueError",
                        "Calculation type '" \o Str(calculation_type)
                            \o "' is already registered."),
          dict |-> dict]
    ELSE [out |-> Return(MkType(Str(subclass))),
          dict |-> Set(dict, lower(calculation_type), subclass)]

\* mutant: the class is bound before the duplicate check
register_calculation_overwrites(dict, calculation_type, subclass) ==
    IF In(lower(calculation_type), dict)
    THEN [out |-> Raise("ValueError",
                        "Calculation type '" \o Str(calculation_type)
                            \o "' is already registered."),
          dict |-> Set(dict, lower(calculation_type), subclass)]
    ELSE [out |-> Return(MkType(Str(subclass))),
          dict |-> Set(dict, lower(calculation_type), subclass)]

\* mutant: the class is bound under the name as spelled
register_calculation_spelled(dict, calculation_type, subclass) ==
    IF In(lower(calculation_type), dict)
    THEN [out |-> Raise("ValueError",
                        "Calculation type '" \o Str(calculation_type)
                            \o "' is already registered."),
          dict |-> dict]
    ELSE [out |-> Return(MkType(Str(subclass))),
          dict |-> Set(dict, calculation_type, subclass)]

\* register_calculation(calculation_type)(subclass): the outcome and the
\* registry the call leaves
register_calculation(dict, calculation_type, subclass) ==
    LET calculation_type_lower == lower(calculation_type)
    IN  IF In(calculation_type_lower, dict)
        THEN [out |-> Raise("ValueError",
                            "Calculation type '" \o Str(calculation_type)
                                \o "' is already registered."),
              dict |-> dict]
        ELSE [out |-> Return(MkType(Str(subclass))),
              dict |-> Set(dict, calculation_type_lower, subclass)]

\* mutant: the class is looked up with dict[key], which raises KeyError
create_calculation_keyerror(dict, calculation_type, a, b) ==
    IF In(lower(calculation_type), dict)
    THEN Return(New(Get(dict, lower(calculation_type)), a, b))
    ELSE Raise("KeyError", "'" \o Str(lower(calculation_type)) \o "'")

\* mutant: the error message names the lowercased type
create_calculation_lowered(dict, calculation_type, a, b) ==
    LET calculation_class == Get(dict, lower(calculation_type))
    IN  IF calculation_class = <<>>
        THEN Raise("ValueError",
                   "Unsupported calculation type: '"
                       \o Str(lower(calculation_type)) \o "'. Available types: "
                       \o Join([i \in 1..Len(dict) |-> Str(Keys(dict)[i])]))
        ELSE Return(New(calculation_class, a, b))

\* mutant: the operands reach the constructor in the wrong order
create_calculation_swapped(dict, calculation_type, a, b) ==
    LET calculation_class == Get(dict, lower(calculation_type))
    IN  IF calculation_class = <<>>
        THEN Raise("ValueError",
                   "Unsupported calculation type: '" \o Str(calculation_type)
                       \o "'. Available types: "
                       \o Join([i \in 1..Len(dict) |-> Str(Keys(dict)[i])]))
        ELSE Return(New(calculation_class, b, a))

\* mutant: the name is trimmed before it is looked up
create_calculation_stripping(dict, calculation_type, a, b) ==
    LET calculation_class == Get(dict, lower(strip(calculation_type)))
    IN  IF calculation_class = <<>>
        THEN Raise("ValueError",
                   "Unsupported calculation type: '" \o Str(calculation_type)
                       \o "'. Available types: "
                       \o Join([i \in 1..Len(dict) |-> Str(Keys(dict)[i])]))
        ELSE Return(New(calculation_class, a, b))

\* create_calculation(calculation_type, a, b): the outcome, whose value is
\* the new object
create_calculation(dict, calculation_type, a, b) ==
    LET calculation_type_lower == lower(calculation_type)
        calculation_class == Get(dict, calculation_type_lower)
    IN  IF calculation_class = <<>>
        THEN LET available_types ==
                     Join([i \in 1..Len(dict) |-> Str(Keys(dict)[i])])
             IN  Raise("ValueError",
                       "Unsupported calculation type: '" \o Str(calculation_type)
                           \o "'. Available types: " \o available_types)
        ELSE Return(New(calculation_class, a, b))

\* mutant: DivideCalculation is defined before MultiplyCalculation
Builtin_reordered ==
    <<[name |-> <<"a","d","d">>, cls |-> AddCalculation],
      [name |-> <<"s","u","b","t","r","a","c","t">>, cls |-> SubtractCalculation],
      [name |-> <<"d","i","v","i","d","e">>, cls |-> DivideCalculation],
      [name |-> <<"m","u","l","t","i","p","l","y">>, cls |-> MultiplyCalculation]>>

\* the registry once the module is imported: the four decorated classes, in
\* the order of their definitions
Builtin ==
    <<[name |-> <<"a","d","d">>, cls |-> AddCalculation],
      [name |-> <<"s","u","b","t","r","a","c","t">>, cls |-> SubtractCalculation],
      [name |-> <<"m","u","l","t","i","p","l","y">>, cls |-> MultiplyCalculation],
      [name |-> <<"d","i","v","i","d","e">>, cls |-> DivideCalculation]>>

RECURSIVE Import(_, _)
Import(dict, k) ==
    IF k > Len(Builtin) THEN dict
    ELSE Import(register_calculation(dict, Builtin[k].name, Builtin[k].cls).dict,
                k + 1)

-----------------------------------------------------------------------------
(* Inputs *)

RECURSIVE Pow2(_)
Pow2(i) == IF i = 0 THEN 1 ELSE 2 * Pow2(i - 1)

\* the floats 2^i, -2^i and 5 * 2^i, and the two zeros
Floats ==
    {MkFloat(1, Pow2(i), 1) : i \in 0..MaxExp}
        \cup {MkFloat(-1, Pow2(i), 1) : i \in 0..MaxExp}
        \cup {MkFloat(1, 5 * Pow2(i), 1) : i \in 0..MaxExp}
        \cup {MkFloat(1, 0, 1), MkFloat(-1, 0, 1)}

\* operands of direct library calls: numbers and texts
LibOperands ==
    Floats \cup {MkInt(0), MkInt(2), MkInt(-1)} \cup {MkStr("10")}

\* operands of the calculations: floats, an int and a text
Operands ==
    {v \in Floats : v.sg = 1 \/ v.n = 0 \/ v.n = Pow2(MaxExp)}
        \cup {MkInt(2), MkStr("5")}

\* two operands, for the calls whose operands are only carried along
TwoOperands == {MkFloat(1, 0, 1), MkFloat(1, 2, 1)}

\* an operand of each sort that fails differently
FewOperands == {MkFloat(1, 0, 1), MkFloat(1, 2, 1), MkStr("5")}

\* the names the four built-in classes are registered under
BuiltinNames ==
    {<<"a","d","d">>, <<"s","u","b","t","r","a","c","t">>,
     <<"m","u","l","t","i","p","l","y">>, <<"d","i","v","i","d","e">>}

\* names asked of the factory: registered names, other spellings of them,
\* names it may not know, and near misses
Names ==
    {<<"a","d","d">>, <<"A","D","D">>,
     <<"s","u","b","t","r","a","c","t">>, <<"S","U","B","T","R","A","C","T">>,
     <<"m","u","l","t","i","p","l","y">>,
     <<"d","i","v","i","d","e">>, <<"D","i","v","i","d","e">>,
     <<"m","o","d","u","l","u","s">>,
     <<"p","o","w","e","r">>, <<"P","o","w","e","r">>,
     <<"a","d">>, <<"a","d","d","s">>, <<" ","a","d","d">>}

\* names under which a class is registered after import
NewNames ==
    {<<"a","d","d">>, <<"A","D","D">>, <<"D","i","v","i","d","e">>,
     <<"m","o","d","u","l","u","s">>,
     <<"p","o","w","e","r">>, <<"P","O","W","E","R">>}

\* classes registered after import
NewClasses == {AnotherAddCalculation, SubtractCalculation}

Functions == {"addition", "subtraction", "multiplication", "division"}

\* Operation.<fn>(a, b)
Operation(fn, a, b) ==
    CASE fn = "addition" -> addition(a, b)
      [] fn = "subtraction" -> subtraction(a, b)
      [] fn = "multiplication" -> multiplication(a, b)
      [] fn = "division" -> division(a, b)

-----------------------------------------------------------------------------
(* State *)
(*   calculations  CalculationFactory._calculations                         *)
(*   calc          the calculation object the caller holds, or None         *)
(*   via           the arguments of the create call that returned calc      *)
(*   last          the latest call and its outcome: op, the name given to   *)
(*                 the factory, the operands the call worked on, the        *)
(*                 exception raised ("none" if it returned), its message,   *)
(*                 the value returned, the library functions invoked        *)
(*   seen          the failures observed so far, as [cause, exc]            *)
(*   memo          what the first execute() and the first str() on the      *)
(*                 object held in calc gave                                 *)
(*   loaded        how many of the decorated classes of app/calculation     *)
(*                 the import has defined                                   *)
(*   stdin         the lines and signals the session has yet to read        *)
(*   history       the list history of calculator()                         *)
(*   stdout        the arguments of the print and input calls so far        *)
(*   status        "running", or the exit status of the process             *)

\* no call made yet on the object held: execute and str are what the first
\* execute() and the first str() gave, afterExecute and afterStr the kinds
\* of the calls made since
NoCalls == [execute |-> None, str |-> None, afterExecute |-> {}, afterStr |-> {}]

\* the variables only some of the specifications use
Rest == <<memo, loaded, session>>

Outcome(op, name, a, b, out, calls) ==
    [op |-> op, name |-> name, a |-> a, b |-> b,
     exc |-> out.exc, msg |-> out.msg, value |-> out.value, calls |-> calls]

Init ==
    /\ calculations = Import(<<>>, 1)
    /\ calc = None
    /\ via = [name |-> <<>>, a |-> None, b |-> None]
    /\ last = Outcome("import", <<>>, None, None, Return(None), <<>>)
    /\ seen = {}
    /\ memo = NoCalls
    /\ loaded = Len(Builtin)
    /\ stdin = <<>>
    /\ history = <<>>
    /\ stdout = <<>>
    /\ status = "starting"

\* @CalculationFactory.register_calculation(name) applied to cls
Register(name, cls) ==
    LET r == register_calculation(calculations, name, cls)
    IN  /\ calculations' = r.dict
        /\ last' = Outcome("register", name, None, None, r.out, <<>>)
        /\ UNCHANGED <<calc, via>>

\* mutant: a name that is not registered is bound to AddCalculation by the
\* failing create, as with dict.setdefault
Create_setdefault(name, a, b) ==
    LET out == create_calculation(calculations, name, a, b)
    IN  IF out.exc = "none"
        THEN /\ calc' = out.value
             /\ via' = [name |-> name, a |-> a, b |-> b]
             /\ last' = Outcome("create", name, a, b, out, <<>>)
             /\ UNCHANGED calculations
        ELSE /\ last' = Outcome("create", name, None, None, out, <<>>)
             /\ calculations' = Set(calculations, lower(name), AddCalculation)
             /\ UNCHANGED <<calc, via>>

\* calc = CalculationFactory.create_calculation(name, a, b)
Create(name, a, b) ==
    LET out == create_calculation(calculations, name, a, b)
    IN  IF out.exc = "none"
        THEN /\ calc' = out.value
             /\ via' = [name |-> name, a |-> a, b |-> b]
             /\ last' = Outcome("create", name, a, b, out, <<>>)
             /\ UNCHANGED calculations
        ELSE /\ last' = Outcome("create", name, None, None, out, <<>>)
             /\ UNCHANGED <<calculations, calc, via>>

\* another object is created and let go: the caller keeps holding calc
CreateAnother(name, a, b) ==
    /\ calc # None
    /\ last' = Outcome("create", name, None, None,
                       create_calculation(calculations, name, a, b), <<>>)
    /\ UNCHANGED <<calculations, calc, via>>

\* mutant: execute keeps its result in self.a
Execute_accumulating ==
    /\ calc # None
    /\ LET out == execute(calc)
       IN  /\ last' = Outcome("execute", <<>>, calc.a, calc.b, out, out.calls)
           /\ calc' = IF out.exc = "none" THEN [calc EXCEPT !.a = out.value]
                      ELSE calc
    /\ UNCHANGED <<calculations, via>>

\* calc.execute()
Execute ==
    /\ calc # None
    /\ LET out == execute(calc)
       IN  last' = Outcome("execute", <<>>, calc.a, calc.b, out, out.calls)
    /\ UNCHANGED <<calculations, calc, via>>

\* mutant: __str__ keeps the result in self.a
Describe_accumulating ==
    /\ calc # None
    /\ LET out == str(calc)
       IN  /\ last' = Outcome("str", <<>>, calc.a, calc.b, out, out.calls)
           /\ calc' = IF out.exc = "none"
                      THEN [calc EXCEPT !.a = execute(calc).value]
                      ELSE calc
    /\ UNCHANGED <<calculations, via>>

\* str(calc)
Describe ==
    /\ calc # None
    /\ LET out == str(calc)
       IN  last' = Outcome("str", <<>>, calc.a, calc.b, out, out.calls)
    /\ UNCHANGED <<calculations, calc, via>>

\* repr(calc)
Repr ==
    /\ calc # None
    /\ LET out == repr(calc)
       IN  last' = Outcome("repr", <<>>, calc.a, calc.b, out, out.calls)
    /\ UNCHANGED <<calculations, calc, via>>

\* Operation.<fn>(a, b), called directly
Call(fn, a, b) ==
    /\ last' = Outcome(fn, <<>>, a, b, Operation(fn, a, b), <<fn>>)
    /\ UNCHANGED <<calculations, calc, via>>

\* the factory: registrations, and calculations created under many names
Next ==
    \/ \E name \in NewNames, cls \in NewClasses :
           Register(name, cls) /\ UNCHANGED <<seen, Rest>>
    \/ \E name \in Names, a \in TwoOperands, b \in TwoOperands :
           Create(name, a, b) /\ UNCHANGED <<seen, Rest>>
    \/ Execute /\ UNCHANGED <<seen, Rest>>
    \/ Describe /\ UNCHANGED <<seen, Rest>>

Spec == Init /\ [][Next]_vars

\* the calculations of the built-in classes, on many operands
CalcNext ==
    \/ \E name \in BuiltinNames, a \in Operands, b \in Operands :
           Create(name, a, b) /\ UNCHANGED <<seen, Rest>>
    \/ Execute /\ UNCHANGED <<seen, Rest>>
    \/ Describe /\ UNCHANGED <<seen, Rest>>

CalcSpec == Init /\ [][CalcNext]_vars

\* the Operation library, called directly
LibNext ==
    \E fn \in Functions, a \in LibOperands, b \in LibOperands :
        Call(fn, a, b) /\ UNCHANGED <<seen, Rest>>

LibSpec == Init /\ [][LibNext]_vars

-----------------------------------------------------------------------------
(* Failures observed by a caller that tries every operation *)

\* why a failed call failed: the unknown name of a create, the bound name of
\* a register, the zero divisor of a division on numbers, or an operand that
\* is not a number ("Mixed": a division with both a text and a zero divisor)
Cause(l, obj) ==
    LET dividing == \/ l.op = "division"
                    \/ l.op \in {"execute", "str"} /\ obj.cls = DivideCalculation
    IN  IF l.op = "create" THEN "UnsupportedOperation"
        ELSE IF l.op = "register" THEN "DuplicateRegistration"
        ELSE IF IsNumber(l.a) /\ IsNumber(l.b) THEN "DivisionByZero"
        ELSE IF dividing /\ EqZero(l.b) THEN "Mixed"
        ELSE "TypeMismatch"

Observed(l, obj) ==
    IF l.exc = "none" \/ Cause(l, obj) = "Mixed" THEN {}
    ELSE {[cause |-> Cause(l, obj), exc |-> l.exc]}

ErrNames ==
    {<<"a","d","d">>, <<"d","i","v","i","d","e">>, <<"m","o","d","u","l","u","s">>}

\* the caller notes each failure it meets
Log == seen' = seen \cup Observed(last', calc')

ErrNext ==
    \/ \E name \in {<<"A","D","D">>, <<"p","o","w","e","r">>} :
           Register(name, AnotherAddCalculation) /\ Log /\ UNCHANGED Rest
    \/ \E name \in ErrNames, a \in FewOperands, b \in FewOperands :
           Create(name, a, b) /\ Log /\ UNCHANGED Rest
    \/ Execute /\ Log /\ UNCHANGED Rest
    \/ Describe /\ Log /\ UNCHANGED Rest
    \/ \E a \in FewOperands, b \in FewOperands : Call("division", a, b) /\ Log /\ UNCHANGED Rest

ErrSpec == Init /\ [][ErrNext]_vars

-----------------------------------------------------------------------------
(* The import of app/calculation, one decorated class at a time. The names  *)
(* of the module are bound in the importing module once its body has run    *)
(* to the end, so no call is made on the factory before that.               *)

LoadInit ==
    /\ calculations = <<>>
    /\ loaded = 0
    /\ calc = None
    /\ via = [name |-> <<>>, a |-> None, b |-> None]
    /\ last = Outcome("import", <<>>, None, None, Return(None), <<>>)
    /\ seen = {}
    /\ memo = NoCalls
    /\ stdin = <<>>
    /\ history = <<>>
    /\ stdout = <<>>
    /\ status = "starting"

\* the next class statement of the module: the decorator registers the class
Decorate ==
    /\ loaded < Len(Builtin)
    /\ LET next == Builtin[loaded + 1]
           r == register_calculation(calculations, next.name, next.cls)
       IN  /\ calculations' = r.dict
           /\ last' = Outcome("import", next.name, None, None, r.out, <<>>)
    /\ loaded' = loaded + 1
    /\ UNCHANGED <<calc, via>>

\* from app.calculation import CalculationFactory has completed
Imported == loaded = Len(Builtin)

Same == UNCHANGED <<seen, memo, loaded, session>>

LoadNext ==
    \/ Decorate /\ UNCHANGED <<seen, memo, session>>
    \/ Imported /\ \E name \in {<<"A","D","D">>, <<"p","o","w","e","r">>} :
                       Register(name, AnotherAddCalculation) /\ Same
    \/ Imported /\ \E name \in Names, a \in TwoOperands, b \in TwoOperands :
                       Create(name, a, b) /\ Same
    \/ Imported /\ Execute /\ Same
    \/ Imported /\ Describe /\ Same

LoadSpec == LoadInit /\ [][LoadNext]_vars

-----------------------------------------------------------------------------
(* The interactive session: calculator() of app/calculator. A session reads  *)
(* stdin item by item; an item is a line, without its newline, or the        *)
(* keyboard interrupt; when stdin is used up, input() meets end-of-file.     *)
(* What the session writes is kept as the sequence of the texts written,     *)
(* each text as the sequence of the pieces its f-string is made of.          *)

\* a keyboard interrupt that arrives while input() waits
Interrupt == <<"KeyboardInterrupt">>

help_message ==
    "\n"
        \o "Calculator REPL Help\n"
        \o "--------------------\n"
        \o "Usage:\n"
        \o "    <operation> <number1> <number2>\n"
        \o "    - Perform a calculation with the specified operation and two numbers.\n"
        \o "    - Supported operations:\n"
        \o "        add       : Adds two numbers.\n"
        \o "        subtract  : Subtracts the second number from the first.\n"
        \o "        multiply  : Multiplies two numbers.\n"
        \o "        divide    : Divides the first number by the second.\n"
        \o "\n"
        \o "Special Commands:\n"
        \o "    help      : Display this help message.\n"
        \o "    history   : Show the history of calculations.\n"
        \o "    exit      : Exit the calculator.\n"
        \o "\n"
        \o "Examples:\n"
        \o "    add 10 5\n"
        \o "    subtract 15.5 3.2\n"
        \o "    multiply 7 8\n"
        \o "    divide 20 4\n"
        \o "    "

\* what one pass of the loop does: the texts printed, the history it leaves
\* and whether the process goes on
Continue(prints, hist) == [prints |-> prints, history |-> hist, status |-> "running"]

\* sys.exit(0)
Exit(prints, hist) == [prints |-> prints, history |-> hist, status |-> "exit 0"]

\* an exception no handler of calculator() catches ends the process with a
\* traceback and status 1
Escape(prints, hist) == [prints |-> prints, history |-> hist, status |-> "exit 1"]

\* MockCalculation.__str__
MockCalculation_str(self) ==
    [exc |-> "none", msg |-> "", value |-> MkStr("MockCalculation"), calls |-> <<>>]

\* f"{calculation}": the __str__ of the class of the object
result_str(calculation) ==
    IF calculation.cls = MockCalculation THEN MockCalculation_str(calculation)
    ELSE str(calculation)

display_help == <<<<help_message>>>>

\* for idx, calculation in enumerate(history, start=1): print(...)
RECURSIVE display_entries(_, _, _)
display_entries(hist, idx, prints) ==
    IF idx > Len(hist) THEN Continue(prints, hist)
    ELSE LET text == result_str(hist[idx])
         IN  IF text.exc # "none" THEN Escape(prints, hist)
             ELSE display_entries(hist, idx + 1,
                                  Append(prints, <<Digits(idx), ". ", text.value.s>>))

\* mutant: the header is printed whether or not the history is empty
display_history_headed(hist) ==
    display_entries(hist, 1, <<<<"Calculation History:">>>>)

display_history(hist) ==
    IF hist = <<>> THEN Continue(<<<<"No calculations performed yet.">>>>, hist)
    ELSE display_entries(hist, 1, <<<<"Calculation History:">>>>)

\* except ValueError, of the unpacking and of float()
InvalidInput(hist) ==
    Continue(<<<<"Invalid input. Please follow the format: <operation> <num1> <num2>">>,
               <<"Type 'help' for more information.\n">>>>, hist)

\* mutant: create_calculation is called outside a try
Unsupported_uncaught(hist, ve) == Escape(<<>>, hist)

\* except ValueError as ve, of create_calculation
Unsupported(hist, ve) ==
    Continue(<<<<ve.msg>>,
               <<"Type 'help' to see the list of supported operations.\n">>>>, hist)

\* except ZeroDivisionError
DivisionByZero(hist) ==
    Continue(<<<<"Cannot divide by zero.">>,
               <<"Please enter a non-zero divisor.\n">>>>, hist)

\* mutant: the handler raises the exception again
Unexpected_reraising(hist, e) == Escape(<<>>, hist)

\* except Exception as e
Unexpected(hist, e) ==
    Continue(<<<<"An error occurred during calculation: ", e.msg>>,
               <<"Please try again.\n">>>>, hist)

\* mutant: history.insert(0, calculation)
Succeed_prepending(hist, calculation) ==
    LET text == result_str(calculation)
    IN  IF text.exc # "none" THEN Escape(<<>>, hist)
        ELSE Continue(<<<<"Result: ", text.value.s, "\n">>>>,
                      <<calculation>> \o hist)

\* mutant: the value of execute is printed, not the string form
Succeed_printing_value(hist, calculation) ==
    Continue(<<<<"Result: ", Format(execute(calculation).value), "\n">>>>,
             Append(hist, calculation))

\* result_str = f"{calculation}"; print(...); history.append(calculation)
Succeed(hist, calculation) ==
    LET text == result_str(calculation)
    IN  IF text.exc # "none" THEN Escape(<<>>, hist)
        ELSE Continue(<<<<"Result: ", text.value.s, "\n">>>>,
                      Append(hist, calculation))

\* mutant: sys.exit(1) in the KeyboardInterrupt handler
Interrupted_failing(hist) ==
    [prints |-> <<<<"\nKeyboard interrupt detected. Exiting calculator. Goodbye!">>>>,
     history |-> hist, status |-> "exit 1"]

\* except KeyboardInterrupt
Interrupted(hist) ==
    Exit(<<<<"\nKeyboard interrupt detected. Exiting calculator. Goodbye!">>>>, hist)

\* except EOFError
EndOfFile(hist) ==
    Exit(<<<<"\nEOF detected. Exiting calculator. Goodbye!">>>>, hist)

\* mutant: except Exception comes before except ZeroDivisionError
calculate_generic_first(dict, hist, user_input) ==
    LET words == split(user_input)
        num1 == float(words[2])
        num2 == float(words[3])
        calculation == create_calculation(dict, words[1], num1.value, num2.value)
        result == execute(calculation.value)
    IN  IF Len(words) # 3 THEN InvalidInput(hist)
        ELSE IF num1.exc = "ValueError" \/ num2.exc = "ValueError"
        THEN InvalidInput(hist)
        ELSE IF calculation.exc = "ValueError" THEN Unsupported(hist, calculation)
        ELSE IF calculation.exc # "none" THEN Escape(<<>>, hist)
        ELSE IF result.exc # "none" THEN Unexpected(hist, result)
        ELSE Succeed(hist, calculation.value)

\* mutant: history.append(calculation) comes before calculation.execute()
calculate_appending_early(dict, hist, user_input) ==
    LET words == split(user_input)
        num1 == float(words[2])
        num2 == float(words[3])
        calculation == create_calculation(dict, words[1], num1.value, num2.value)
        result == execute(calculation.value)
        appended == Append(hist, calculation.value)
    IN  IF Len(words) # 3 THEN InvalidInput(hist)
        ELSE IF num1.exc = "ValueError" \/ num2.exc = "ValueError"
        THEN InvalidInput(hist)
        ELSE IF calculation.exc = "ValueError" THEN Unsupported(hist, calculation)
        ELSE IF calculation.exc # "none" THEN Escape(<<>>, hist)
        ELSE IF result.exc = "ZeroDivisionError" THEN DivisionByZero(appended)
        ELSE IF result.exc # "none" THEN Unexpected(appended, result)
        ELSE LET text == result_str(calculation.value)
             IN  IF text.exc # "none" THEN Escape(<<>>, appended)
                 ELSE Continue(<<<<"Result: ", text.value.s, "\n">>>>, appended)

\* the three-token line: parse, create, execute, report
calculate(dict, hist, user_input) ==
    LET words == split(user_input)
        num1 == float(words[2])
        num2 == float(words[3])
        calculation == create_calculation(dict, words[1], num1.value, num2.value)
        result == execute(calculation.value)
    IN  IF Len(words) # 3 THEN InvalidInput(hist)
        ELSE IF num1.exc = "ValueError" \/ num2.exc = "ValueError"
        THEN InvalidInput(hist)
        ELSE IF calculation.exc = "ValueError" THEN Unsupported(hist, calculation)
        ELSE IF calculation.exc # "none" THEN Escape(<<>>, hist)
        ELSE IF result.exc = "ZeroDivisionError" THEN DivisionByZero(hist)
        ELSE IF result.exc # "none" THEN Unexpected(hist, result)
        ELSE Succeed(hist, calculation.value)

\* mutant: the exit command is recognised by command.startswith("exit")
calculator_loop_exit_prefix(dict, hist, item) ==
    LET user_input == strip(item)
        command == lower(user_input)
    IN  IF item = Interrupt THEN Interrupted(hist)
        ELSE IF user_input = <<>> THEN Continue(<<>>, hist)
        ELSE IF command = <<"h","e","l","p">> THEN Continue(display_help, hist)
        ELSE IF command = <<"h","i","s","t","o","r","y">> THEN display_history(hist)
        ELSE IF HasPrefix(command, <<"e","x","i","t">>)
        THEN Exit(<<<<"Exiting calculator. Goodbye!\n">>>>, hist)
        ELSE calculate(dict, hist, user_input)

\* one pass of the while loop, from input() on
calculator_loop(dict, hist, item) ==
    LET user_input == strip(item)
        command == lower(user_input)
    IN  IF item = Interrupt THEN Interrupted(hist)
        ELSE IF user_input = <<>> THEN Continue(<<>>, hist)
        ELSE IF command = <<"h","e","l","p">> THEN Continue(display_help, hist)
        ELSE IF command = <<"h","i","s","t","o","r","y">> THEN display_history(hist)
        ELSE IF command = <<"e","x","i","t">>
        THEN Exit(<<<<"Exiting calculator. Goodbye!\n">>>>, hist)
        ELSE calculate(dict, hist, user_input)

\* the lines typed in the sessions of the model
Lines ==
    {<<"a","d","d"," ","1","0"," ","5">>,
     <<" "," ","M","u","l","t","i","p","l","y"," "," ","-","2"," ","2",".","5"," ">>,
     <<"d","i","v","i","d","e"," ","1","0"," ","0">>,
     <<"D","i","v","i","d","e"," ","0"," ","-","0",".","0">>,
     <<"m","o","c","k"," ","1"," ","2">>,
     <<"a","d","d"," ","5">>,
     <<"m","o","d","u","l","u","s"," ","f","i","v","e"," ","2">>,
     <<"h","e","l","p">>,
     <<"h","i","s","t","o","r","y">>,
     <<" ","E","X","I","T"," ">>,
     <<"e","x","i","t"," ","1"," ","2">>,
     <<" "," ">>}

Items == Lines \cup {Interrupt}

\* what stdin holds when the session starts
Streams == UNION {[1..k -> Items] : k \in 0..MaxInput}

\* the registry after import, and the same with the failing class registered
\* under the name mock
Registries ==
    {Import(<<>>, 1),
     register_calculation(Import(<<>>, 1), <<"m","o","c","k">>, MockCalculation).dict}

\* before calculator() is called, with streams the inputs a session may find
\* on stdin; the failing class is registered in sessions that ask for it
Session(streams) ==
    /\ calculations \in Registries
    /\ loaded = Len(Builtin)
    /\ calc = None
    /\ via = [name |-> <<>>, a |-> None, b |-> None]
    /\ last = Outcome("import", <<>>, None, None, Return(None), <<>>)
    /\ seen = {}
    /\ memo = NoCalls
    /\ stdin \in streams
    /\ In(<<"m","o","c","k">>, calculations)
           => \E i \in 1..Len(stdin) : stdin[i] = <<"m","o","c","k"," ","1"," ","2">>
    /\ history = <<>>
    /\ stdout = <<>>
    /\ status = "starting"

ReplInit == Session(Streams)

Prompt == <<">> ">>

\* calculator() is called: history = [], the welcome, the first input(">> ")
Start ==
    /\ status = "starting"
    /\ history' = <<>>
    /\ stdout' = <<<<"Welcome to the Professional Calculator REPL!">>,
                   <<"Type 'help' for instructions or 'exit' to quit.\n">>,
                   Prompt>>
    /\ status' = "running"
    /\ UNCHANGED <<calculations, calc, via, last, seen, memo, loaded, stdin>>

\* input() returns or raises, the loop body runs, and the loop comes back to
\* input(">> ") unless the process has ended
Read ==
    /\ status = "running"
    /\ LET r == IF stdin = <<>> THEN EndOfFile(history)
                ELSE calculator_loop(calculations, history, Head(stdin))
       IN  /\ history' = r.history
           /\ status' = r.status
           /\ stdout' = stdout \o r.prints
                            \o (IF r.status = "running" THEN <<Prompt>> ELSE <<>>)
    /\ stdin' = IF stdin = <<>> THEN <<>> ELSE Tail(stdin)
    /\ UNCHANGED <<calculations, calc, via, last, seen, memo, loaded>>

ReplNext == Start \/ Read

ReplSpec == ReplInit /\ [][ReplNext]_vars

\* the items of the sessions followed to their end: a line of each outcome
LiveItems ==
    {<<"a","d","d"," ","1","0"," ","5">>,
     <<"d","i","v","i","d","e"," ","1","0"," ","0">>,
     <<"m","o","c","k"," ","1"," ","2">>,
     <<"a","d","d"," ","5">>,
     <<"h","i","s","t","o","r","y">>,
     <<"e","x","i","t">>,
     Interrupt}

LiveInit == Session(UNION {[1..k -> LiveItems] : k \in 0..MaxInput})

\* the loop makes its next pass: an item leaves stdin, or end-of-file is met
Pass ==
    /\ status = "running"
    /\ stdin' = IF stdin = <<>> THEN <<>> ELSE Tail(stdin)
    /\ status' \in {"running", "exit 0", "exit 1"}

\* the interpreter keeps running the loop, and input() returns as soon as
\* stdin has a line, a signal or its end. A Read step is a Pass step, and
\* Pass is enabled exactly when Read is.
ReplLiveSpec ==
    LiveInit /\ [][ReplNext]_vars /\ WF_<<stdin, status>>(Pass)

-----------------------------------------------------------------------------
(* A caller that holds one calculation and calls it again and again, with   *)
(* other calls in between                                                   *)

Result(l) == [exc |-> l.exc, msg |-> l.msg, value |-> l.value]

\* the caller has a new object in calc
Forget == memo' = IF last'.exc = "none" THEN NoCalls ELSE memo

\* the caller notes what the first execute() and the first str() on the
\* object gave, and which calls it made after each
Remember ==
    LET op == last'.op
        first == /\ op \in {"execute", "str"}
                 /\ memo[op] = None
    IN  memo' =
          [execute |-> IF first /\ op = "execute" THEN Result(last')
                       ELSE memo.execute,
           str |-> IF first /\ op = "str" THEN Result(last') ELSE memo.str,
           afterExecute |-> IF memo.execute = None THEN {}
                            ELSE memo.afterExecute \cup {op},
           afterStr |-> IF memo.str = None THEN {}
                        ELSE memo.afterStr \cup {op}]

PureNames ==
    {<<"a","d","d">>, <<"s","u","b","t","r","a","c","t">>,
     <<"m","u","l","t","i","p","l","y">>, <<"d","i","v","i","d","e">>,
     <<"p","o","w","e","r">>}

Kept == UNCHANGED <<seen, loaded, session>>

PureNext ==
    \/ Register(<<"p","o","w","e","r">>, AnotherAddCalculation)
           /\ Remember /\ Kept
    \/ \E name \in PureNames, a \in TwoOperands, b \in TwoOperands :
           Create(name, a, b) /\ Forget /\ Kept
    \/ \E name \in {<<"a","d","d">>, <<"m","o","d","u","l","u","s">>} :
           CreateAnother(name, MkFloat(1, 2, 1), MkFloat(1, 2, 1))
               /\ Remember /\ Kept
    \/ Execute /\ Remember /\ Kept
    \/ Describe /\ Remember /\ Kept
    \/ Repr /\ Remember /\ Kept

PureSpec == Init /\ [][PureNext]_vars

-----------------------------------------------------------------------------
(* Properties *)

Name_add == <<"a","d","d">>

Name_subtract == <<"s","u","b","t","r","a","c","t">>

Name_multiply == <<"m","u","l","t","i","p","l","y">>

Name_divide == <<"d","i","v","i","d","e">>

\* the library function, the class name and the operation word that go with
\* each built-in name
LibraryOf(name) ==
    CASE name = Name_add -> "addition"
      [] name = Name_subtract -> "subtraction"
      [] name = Name_multiply -> "multiplication"
      [] name = Name_divide -> "division"

VariantOf(name) ==
    CASE name = Name_add -> "AddCalculation"
      [] name = Name_subtract -> "SubtractCalculation"
      [] name = Name_multiply -> "MultiplyCalculation"
      [] name = Name_divide -> "DivideCalculation"

WordOf(name) ==
    CASE name = Name_add -> "Add"
      [] name = Name_subtract -> "Subtract"
      [] name = Name_multiply -> "Multiply"
      [] name = Name_divide -> "Divide"

F(z) == MkFloat(IF z < 0 THEN -1 ELSE 1, Abs(z), 1)

\* C1: for every built-in name n and numeric operands (a, b), b # 0 when n is
\* divide, create_calculation(n, a, b).execute() returns what the library
\* function of that operation returns on (a, b).
C1_ExecuteIsLibraryCall ==
    (/\ last.op = "execute"
     /\ via.name \in BuiltinNames
     /\ IsNumber(via.a) /\ IsNumber(via.b)
     /\ ~(via.name = Name_divide /\ EqZero(via.b)))
    => /\ last.exc = "none"
       /\ Return(last.value) = Operation(LibraryOf(via.name), via.a, via.b)
       /\ (via.name = Name_subtract /\ via.a = F(5) /\ via.b = F(-2))
              => last.value = F(7)
       /\ (via.name = Name_divide /\ via.a = F(5) /\ via.b = F(2))
              => last.value = MkFloat(1, 5, 2)

C1_Witness ==
    /\ last.op = "execute"
    /\ via = [name |-> Name_subtract, a |-> F(1), b |-> F(10)]
    /\ last.value = F(-9)

\* C2: executing a Divide calculation whose b is zero fails with
\* ZeroDivisionError "Cannot divide by zero." whatever a is, and the library's
\* division is not invoked on that path.
C2_DivideByZeroGuard ==
    (last.op = "execute" /\ via.name = Name_divide /\ EqZero(via.b))
    => /\ last.exc = "ZeroDivisionError"
       /\ last.msg = "Cannot divide by zero."
       /\ last.calls = <<>>

C2_Witness ==
    /\ last.op = "execute"
    /\ via = [name |-> Name_divide, a |-> MkStr("5"), b |-> MkFloat(-1, 0, 1)]
    /\ last.exc = "ZeroDivisionError"

\* C10: when execute succeeds, the string form is
\* '<VariantName>: <a> <OperationWord> <b> = <result>', result being the value
\* execute returns.
C10_StringForm ==
    (last.op = "str" /\ via.name \in BuiltinNames /\ execute(calc).exc = "none")
    => /\ last.exc = "none"
       /\ last.value =
              MkStr(VariantOf(via.name) \o ": " \o Format(via.a) \o " "
                    \o WordOf(via.name) \o " " \o Format(via.b) \o " = "
                    \o Format(execute(calc).value))
       /\ (via = [name |-> Name_add, a |-> F(10), b |-> F(5)])
              => last.value = MkStr("AddCalculation: 10.0 Add 5.0 = 15.0")
       /\ (via = [name |-> Name_divide, a |-> F(1), b |-> F(10)])
              => last.value = MkStr("DivideCalculation: 1.0 Divide 10.0 = 0.1")
       /\ (via = [name |-> Name_multiply, a |-> MkInt(2), b |-> MkFloat(-1, 0, 1)])
              => last.value = MkStr("MultiplyCalculation: 2 Multiply -0.0 = -0.0")

C10_Witness ==
    /\ last.op = "str"
    /\ last.value = MkStr("SubtractCalculation: 1.0 Subtract 10.0 = -9.0")


\* two letters that differ at most in case
SameLetter(c, d) ==
    \/ c = d
    \/ \E j \in 1..Len(UpperCase) : {c, d} = {UpperCase[j], LowerCase[j]}

\* two names that are equal ignoring letter case
SameIgnoringCase(x, y) ==
    Len(x) = Len(y) /\ \A i \in 1..Len(x) : SameLetter(x[i], y[i])

\* some key of the registry equals name ignoring case
Bound(dict, name) ==
    \E i \in 1..Len(dict) : SameIgnoringCase(dict[i].key, name)

BoundClass(dict, name) ==
    dict[CHOOSE i \in 1..Len(dict) : SameIgnoringCase(dict[i].key, name)].cls

RECURSIVE CommaJoined(_)
CommaJoined(names) ==
    IF names = <<>> THEN ""
    ELSE Str(Head(names)) \o (IF Len(names) > 1 THEN ", " ELSE "")
             \o CommaJoined(Tail(names))

Name_modulus == <<"m","o","d","u","l","u","s">>

Name_power == <<"p","o","w","e","r">>

\* C3: create_calculation of a name that is not registered fails with a
\* ValueError whose message holds the name as the caller spelled it and the
\* registered names, comma-joined, in registration order; nothing is returned.
C3_UnsupportedOperation ==
    (last.op = "create" /\ ~Bound(calculations, last.name))
    => /\ last.exc = "ValueError"
       /\ last.value = None
       /\ last.msg = "Unsupported calculation type: '" \o Str(last.name)
                         \o "'. Available types: "
                         \o CommaJoined(Keys(calculations))
       /\ (last.name = Name_modulus /\ Len(calculations) = 4)
              => last.msg = "Unsupported calculation type: 'modulus'. "
                     \o "Available types: add, subtract, multiply, divide"
       /\ (last.name = <<"a","d","d","s">> /\ Len(calculations) = 6
               /\ calculations[5].key = Name_power)
              => last.msg = "Unsupported calculation type: 'adds'. Available "
                     \o "types: add, subtract, multiply, divide, power, modulus"

C3_Witness ==
    /\ last.op = "create"
    /\ last.name = <<"P","o","w","e","r">>
    /\ Keys(calculations) = <<Name_add, Name_subtract, Name_multiply,
                              Name_divide, Name_modulus>>
    /\ last.msg = "Unsupported calculation type: 'Power'. Available types: "
                      \o "add, subtract, multiply, divide, modulus"

\* C4: for every spelling, up to letter case, of a registered name,
\* create_calculation returns an instance of the class registered under that
\* name whose operands are the (a, b) passed in, in that order.
C4_CreateIgnoresCase ==
    (last.op = "create" /\ Bound(calculations, last.name))
    => /\ last.exc = "none"
       /\ last.value = calc
       /\ via.name = last.name
       /\ calc = [cls |-> BoundClass(calculations, last.name),
                  a |-> via.a, b |-> via.b]

C4_Witness ==
    /\ last.op = "create"
    /\ last.name = <<"S","U","B","T","R","A","C","T">>
    /\ via.a = F(2) /\ via.b = F(0)
    /\ calc = [cls |-> SubtractCalculation, a |-> F(2), b |-> F(0)]

\* C5: register_calculation(name)(cls) fails with ValueError "Calculation type
\* '<name>' is already registered." when a key equal to name ignoring case is
\* bound, and succeeds, binding the lowercased name last, when none is.
C5_DuplicateRegistration ==
    [][last'.op = "register"
       => IF Bound(calculations, last'.name)
          THEN /\ last'.exc = "ValueError"
               /\ last'.msg = "Calculation type '" \o Str(last'.name)
                                  \o "' is already registered."
          ELSE /\ last'.exc = "none"
               /\ Len(calculations') = Len(calculations) + 1
               /\ SameIgnoringCase(calculations'[Len(calculations')].key,
                                   last'.name)]_vars

C5_Witness ==
    /\ last.op = "register"
    /\ last.name = <<"A","D","D">>
    /\ last.exc = "ValueError"
    /\ last.msg = "Calculation type 'ADD' is already registered."

\* C6: a register call that fails as a duplicate leaves the registry as it
\* was: the same names in the same order, bound to the same classes.
C6_FailedRegisterKeepsRegistry ==
    [][(last'.op = "register" /\ last'.exc # "none")
       => calculations' = calculations]_vars

C6_Witness ==
    /\ last.op = "register"
    /\ last.exc = "ValueError"
    /\ last.name = <<"P","O","W","E","R">>
    /\ Len(calculations) = 6
    /\ calculations[5] = [key |-> Name_power, cls |-> AnotherAddCalculation]


\* C7: each library function fails with TypeError whenever an operand is not
\* a number, and never returns a value then.
C7_RejectsNonNumbers ==
    (last.op \in Functions /\ (~IsNumber(last.a) \/ ~IsNumber(last.b)))
    => last.exc = "TypeError"

\* C8: Operation.division(a, b) fails with ValueError "Division by zero is
\* not allowed." exactly when b equals zero, for every a, and returns the
\* quotient a / b of two numbers when b is not zero.
C8_LibraryDivision ==
    last.op = "division"
    => /\ EqZero(last.b)
              <=> (last.exc = "ValueError"
                   /\ last.msg = "Division by zero is not allowed.")
       /\ (IsNumber(last.a) /\ IsNumber(last.b) /\ ~EqZero(last.b))
              => /\ last.exc = "none"
                 /\ last.value.t = "float"
                 /\ last.value.d > 0
                 /\ last.value.sg * last.value.n * last.b.sg * last.b.n * last.a.d
                        = last.a.sg * last.a.n * last.value.d * last.b.d

C8_Witness ==
    /\ last.op = "division"
    /\ last.a = F(0) /\ last.b = MkFloat(-1, 0, 1)
    /\ last.exc = "ValueError"

C11_StrFailsAsExecute ==
    last.op = "str"
    => /\ execute(calc).exc # "none"
           => /\ last.exc = execute(calc).exc
              /\ last.msg = execute(calc).msg
              /\ last.value = None
       /\ (calc.cls = DivideCalculation /\ EqZero(calc.b))
           => /\ last.exc = "ZeroDivisionError"
              /\ last.msg = "Cannot divide by zero."
              /\ last.value = None

C11_Witness ==
    /\ last.op = "str"
    /\ calc = New(DivideCalculation, F(10), F(0))
    /\ last.exc = "ZeroDivisionError"

\* C15: a failure raised by the library function a calculation delegates to
\* reaches the caller of execute with the same exception type and message,
\* for Add, Subtract and Multiply on all operands and for Divide when b # 0.
C15_LibraryFailureUnchanged ==
    (/\ last.op = "execute"
     /\ via.name \in BuiltinNames
     /\ ~(via.name = Name_divide /\ EqZero(via.b))
     /\ Operation(LibraryOf(via.name), via.a, via.b).exc # "none")
    => /\ last.exc = Operation(LibraryOf(via.name), via.a, via.b).exc
       /\ last.msg = Operation(LibraryOf(via.name), via.a, via.b).msg
       /\ last.calls = <<LibraryOf(via.name)>>

C15_Witness ==
    /\ last.op = "execute"
    /\ via = [name |-> Name_multiply, a |-> MkStr("5"), b |-> F(2)]
    /\ last.exc = "TypeError"
    /\ last.msg = "can't multiply sequence by non-int of type 'float'"

\* C12: every str() on an object returns what the first str() on that
\* object returned (or fails as it failed), whatever execute, str, create
\* and register calls were made in between.
C12_DescribeDeterministic ==
    (last.op = "str" /\ "str" \in memo.afterStr) => Result(last) = memo.str

C12_Witness ==
    /\ last.op = "str"
    /\ memo.afterStr = {"execute", "str", "create", "register"}
    /\ memo.str.value = MkStr("AddCalculation: 2.0 Add 2.0 = 4.0")

\* C13: for every class and operands on which execute succeeds, the text
\* after "= " in the string form is the value execute returns on that
\* object, printed as Python prints a value of its type (a float with its
\* fraction, an int without one).
C13_StringEmbedsResult ==
    (last.op = "str" /\ execute(calc).exc = "none")
    => /\ last.exc = "none"
       /\ last.value.s =
              Str(calc.cls) \o ": " \o Format(calc.a) \o " " \o WordOf(via.name)
                  \o " " \o Format(calc.b) \o " = " \o Format(execute(calc).value)
       /\ (calc = New(DivideCalculation, F(5), F(2))
              => /\ execute(calc).value = MkFloat(1, 5, 2)
                 /\ last.value.s = "DivideCalculation: 5.0 Divide 2.0 = 2.5")
       /\ (calc = New(MultiplyCalculation, MkInt(2), MkInt(2))
              => /\ execute(calc).value = MkInt(4)
                 /\ last.value.s = "MultiplyCalculation: 2 Multiply 2 = 4")

C13_Witness ==
    /\ last.op = "str"
    /\ calc = New(DivideCalculation, F(5), F(2))
    /\ last.value = MkStr("DivideCalculation: 5.0 Divide 2.0 = 2.5")

\* C14: execute, str and repr leave the operands and the class of the object
\* and the registry as they were, and every execute on an object returns
\* what the first execute on it returned (or fails as it failed).
C14_ExecutePure ==
    [][last'.op \in {"execute", "str", "repr"}
       => /\ calc' = calc
          /\ calculations' = calculations
          /\ (last'.op = "execute" /\ memo.execute # None)
                 => Result(last') = memo.execute]_vars

C14_Witness ==
    /\ last.op = "execute"
    /\ memo.afterExecute = {"execute", "str", "repr"}
    /\ calc = New(DivideCalculation, F(2), F(2))
    /\ memo.execute.value = F(1)

\* C16: once the module is loaded and before any call is served the
\* registry is exactly add, subtract, multiply, divide, in that order, bound
\* to the Add, Subtract, Multiply and Divide classes; every create call finds
\* these four as the first four entries, and no call is served while the
\* module is loading.
C16_RegistryLoadedWhole ==
    LET four == <<[key |-> Name_add, cls |-> AddCalculation],
                  [key |-> Name_subtract, cls |-> SubtractCalculation],
                  [key |-> Name_multiply, cls |-> MultiplyCalculation],
                  [key |-> Name_divide, cls |-> DivideCalculation]>>
    IN  /\ (Imported /\ last.op = "import") => calculations = four
        /\ last.op # "import"
               => /\ Len(calculations) >= 4
                  /\ SubSeq(calculations, 1, 4) = four
        /\ ~Imported => last.op = "import" /\ Len(calculations) = loaded

C16_Witness ==
    /\ last.op = "create"
    /\ last.exc = "none"
    /\ last.name = Name_divide
    /\ Len(calculations) = 4

-----------------------------------------------------------------------------
(* Properties of the interactive session *)

IsPrefix(s, t) == Len(s) <= Len(t) /\ SubSeq(t, 1, Len(s)) = s

\* the session is about to read a line
Reading == status = "running" /\ stdin # <<>> /\ Head(stdin) # Interrupt

\* what the pass now starting prints, its prompt included
Printed == SubSeq(stdout', Len(stdout) + 1, Len(stdout'))

IsMocked == In(<<"m","o","c","k">>, calculations)

\* the lines of the model that ask for a calculation that succeeds, with the
\* object created and its string form
Successes ==
    {[line |-> <<"a","d","d"," ","1","0"," ","5">>,
      object |-> New(AddCalculation, F(10), F(5)),
      text |-> "AddCalculation: 10.0 Add 5.0 = 15.0"],
     [line |-> <<" "," ","M","u","l","t","i","p","l","y"," "," ","-","2"," ","2",".","5"," ">>,
      object |-> New(MultiplyCalculation, F(-2), MkFloat(1, 5, 2)),
      text |-> "MultiplyCalculation: -2.0 Multiply 2.5 = -5.0"]}

InvalidReport ==
    <<<<"Invalid input. Please follow the format: <operation> <num1> <num2>">>,
      <<"Type 'help' for more information.\n">>>>

UnsupportedReport(name) ==
    <<<<"Unsupported calculation type: '" \o name
          \o "'. Available types: add, subtract, multiply, divide"
          \o (IF IsMocked THEN ", mock" ELSE "")>>,
      <<"Type 'help' to see the list of supported operations.\n">>>>

\* the lines of the model that fail, each with the report expected
Failures ==
    {[line |-> <<"a","d","d"," ","5">>, report |-> InvalidReport],
     [line |-> <<"m","o","d","u","l","u","s"," ","f","i","v","e"," ","2">>,
      report |-> InvalidReport],
     [line |-> <<"e","x","i","t"," ","1"," ","2">>,
      report |-> UnsupportedReport("exit")],
     [line |-> <<"d","i","v","i","d","e"," ","1","0"," ","0">>,
      report |-> <<<<"Cannot divide by zero.">>,
                   <<"Please enter a non-zero divisor.\n">>>>],
     [line |-> <<"D","i","v","i","d","e"," ","0"," ","-","0",".","0">>,
      report |-> <<<<"Cannot divide by zero.">>,
                   <<"Please enter a non-zero divisor.\n">>>>],
     [line |-> <<"m","o","c","k"," ","1"," ","2">>,
      report |-> IF IsMocked
                 THEN <<<<"An error occurred during calculation: ",
                          "Mock exception during execution">>,
                        <<"Please try again.\n">>>>
                 ELSE UnsupportedReport("mock")]}

\* C17: the history starts empty and every step of a session leaves the
\* history it found as a prefix of the history it leaves: entries are only
\* added, at the end.
C17_HistoryAppendOnly ==
    /\ history = <<>>
    /\ [][IsPrefix(history, history')]_vars

C17_Witness ==
    /\ history = <<New(MultiplyCalculation, F(-2), MkFloat(1, 5, 2)),
                   New(AddCalculation, F(10), F(5)),
                   New(MultiplyCalculation, F(-2), MkFloat(1, 5, 2))>>
    /\ stdin = <<>>
    /\ status = "running"

\* C18: a line <operation> <num1> <num2> whose operation is registered and
\* whose calculation executes prints "Result: " and the string form of the
\* calculation, and appends that calculation, and nothing else, to the
\* history.
C18_SuccessPrintsAndAppends ==
    [][Reading =>
         /\ \A s \in Successes :
               Head(stdin) = s.line
               => /\ history' = Append(history, s.object)
                  /\ Printed = <<<<"Result: ", s.text, "\n">>, Prompt>>
         /\ LET words == split(Head(stdin))
                made == create_calculation(calculations, words[1],
                                           float(words[2]).value,
                                           float(words[3]).value)
            IN  (/\ Len(words) = 3
                 /\ float(words[2]).exc = "none"
                 /\ float(words[3]).exc = "none"
                 /\ made.exc = "none"
                 /\ execute(made.value).exc = "none")
                => /\ Len(history') = Len(history) + 1
                   /\ history' = Append(history, made.value)
                   /\ Printed = <<<<"Result: ", str(made.value).value.s, "\n">>,
                                  Prompt>>]_vars

C18_Witness ==
    /\ Len(stdout) >= 2
    /\ stdout[Len(stdout) - 1] =
           <<"Result: ", "MultiplyCalculation: -2.0 Multiply 2.5 = -5.0", "\n">>
    /\ history = <<New(AddCalculation, F(10), F(5)),
                   New(MultiplyCalculation, F(-2), MkFloat(1, 5, 2))>>

\* C19: a line that fails (a wrong number of words, an operand that is
\* not a number, a name that is not registered, a division by zero, another
\* exception of execute) is reported, leaves the history as it was, and the
\* session prompts for the next line.
C19_FailureReportedSessionGoesOn ==
    [][Reading =>
         \A f \in Failures :
            Head(stdin) = f.line
            => /\ history' = history
               /\ status' = "running"
               /\ Printed = f.report \o <<Prompt>>]_vars

C19_Witness ==
    /\ status = "running"
    /\ Len(stdout) >= 3
    /\ stdout[Len(stdout) - 2] =
           <<"An error occurred during calculation: ",
             "Mock exception during execution">>
    /\ stdout[Len(stdout)] = Prompt
    /\ history = <<New(AddCalculation, F(10), F(5)),
                   New(MultiplyCalculation, F(-2), MkFloat(1, 5, 2))>>

\* C20: the process ends with status 0 when the session reads the line
\* exit, meets end-of-file, or is interrupted while it waits for input; a
\* session whose input ends with an exit line terminates with status 0.
C20_SessionEndsWithStatusZero ==
    /\ [][(/\ status = "running"
            /\ \/ stdin = <<>>
               \/ Head(stdin) = Interrupt
               \/ Head(stdin) = <<"e","x","i","t">>)
           => /\ status' = "exit 0"
              /\ history' = history]_vars
    /\ [](status \in {"starting", "running", "exit 0"})
    /\ (/\ status = "running"
        /\ stdin # <<>>
        /\ stdin[Len(stdin)] = <<"e","x","i","t">>) ~> (status = "exit 0")

C20_Witness ==
    /\ status = "exit 0"
    /\ stdout[Len(stdout)] = <<"Exiting calculator. Goodbye!\n">>
    /\ Len(history) = 2
    /\ stdin = <<>>

\* the session is about to read a line that, trimmed and lowercased, is word
Command(word) == Reading /\ lower(strip(Head(stdin))) = word

\* C21: the history command prints "No calculations performed yet." when the
\* history is empty, and otherwise "Calculation History:" and then one line
\* for each entry, in the order of the history, numbered from 1, with the
\* string form of the entry; it leaves the history as it was and the session
\* goes on.
C21_HistoryCommand ==
    [][Command(<<"h","i","s","t","o","r","y">>) =>
         /\ history' = history
         /\ status' = "running"
         /\ IF history = <<>>
            THEN Printed = <<<<"No calculations performed yet.">>, Prompt>>
            ELSE /\ Len(Printed) = Len(history) + 2
                 /\ Printed[1] = <<"Calculation History:">>
                 /\ \A i \in 1..Len(history) :
                       Printed[i + 1] =
                           <<Digits(i), ". ", str(history[i]).value.s>>
                 /\ Printed[Len(history) + 2] = Prompt]_vars

C21_Witness ==
    /\ status = "running"
    /\ history = <<New(AddCalculation, F(10), F(5)),
                   New(MultiplyCalculation, F(-2), MkFloat(1, 5, 2))>>
    /\ Len(stdout) >= 4
    /\ SubSeq(stdout, Len(stdout) - 3, Len(stdout)) =
           <<<<"Calculation History:">>,
             <<"1", ". ", "AddCalculation: 10.0 Add 5.0 = 15.0">>,
             <<"2", ". ", "MultiplyCalculation: -2.0 Multiply 2.5 = -5.0">>,
             Prompt>>

-----------------------------------------------------------------------------
(* Properties of the library on numbers *)

\* the value n / d of v has numerator z over the denominator d
IsQuotient(v, z, d) == v.d > 0 /\ v.sg * v.n * d = z * v.d

\* C22: addition, subtraction and multiplication of two numbers, negative and
\* zero operands included, never fail; they return a + b, a - b and a * b, an
\* int when both operands are ints and a float otherwise.
C22_LibraryArithmetic ==
    LET a == last.a
        b == last.b
        x == a.sg * a.n
        y == b.sg * b.n
    IN  (/\ last.op \in {"addition", "subtraction", "multiplication"}
         /\ IsNumber(a) /\ IsNumber(b))
        => /\ last.exc = "none"
           /\ last.value.t = IF a.t = "int" /\ b.t = "int" THEN "int" ELSE "float"
           /\ last.op = "addition"
                  => IsQuotient(last.value, x * b.d + y * a.d, a.d * b.d)
           /\ last.op = "subtraction"
                  => IsQuotient(last.value, x * b.d - y * a.d, a.d * b.d)
           /\ last.op = "multiplication"
                  => IsQuotient(last.value, x * y, a.d * b.d)

C22_Witness ==
    /\ last.op = "subtraction"
    /\ last.a = MkFloat(-1, 0, 1) /\ last.b = F(2)
    /\ last.exc = "none"
    /\ last.value = F(-2)

-----------------------------------------------------------------------------
(* Properties of the registry *)

\* names that are close to the registered name add and are not it: a prefix,
\* the name with a letter after it, the name with a space before it
NearMisses == {<<"a","d">>, <<"a","d","d","s">>, <<" ","a","d","d">>}

\* C23: create_calculation(name, a, b) succeeds exactly when the lowercased
\* name is a key of the registry, letter for letter; a prefix of a registered
\* name and a registered name with a character before or after it fail as
\* unsupported.
C23_ExactNameMatching ==
    last.op = "create"
    => /\ last.exc = "none"
              <=> \E i \in 1..Len(calculations) :
                      calculations[i].key = lower(last.name)
       /\ last.exc # "none"
              => /\ last.exc = "ValueError"
                 /\ last.msg = "Unsupported calculation type: '"
                                   \o Str(last.name) \o "'. Available types: "
                                   \o CommaJoined(Keys(calculations))
       /\ last.name \in NearMisses => last.exc = "ValueError"

C23_Witness ==
    /\ last.op = "create"
    /\ last.name = <<" ","a","d","d">>
    /\ last.exc = "ValueError"
    /\ last.msg = "Unsupported calculation type: ' add'. Available types: "
                      \o "add, subtract, multiply, divide, modulus"

-----------------------------------------------------------------------------
(* More properties of the interactive session *)

\* the session is about to read a line of three words, the first of them a
\* spelling of name and the other two numbers
Asks(name) ==
    /\ Reading
    /\ LET words == split(strip(Head(stdin)))
       IN  /\ Len(words) = 3
           /\ lower(words[1]) = name
           /\ float(words[2]).exc = "none"
           /\ float(words[3]).exc = "none"

\* the second number of the line the session is about to read
Divisor == float(split(strip(Head(stdin)))[3]).value

\* C24: a line divide <x> <y> whose <y> is a spelling of zero prints "Cannot
\* divide by zero." and the advice of the division-by-zero handler, prints
\* nothing of the handler of other exceptions, and leaves the history as it
\* was.
C24_DivideByZeroBranch ==
    [][(Asks(<<"d","i","v","i","d","e">>) /\ EqZero(Divisor))
         => /\ Printed = <<<<"Cannot divide by zero.">>,
                           <<"Please enter a non-zero divisor.\n">>,
                           Prompt>>
            /\ \A i \in 1..Len(Printed) :
                   Printed[i][1] # "An error occurred during calculation: "
            /\ history' = history
            /\ status' = "running"]_vars

C24_Witness ==
    /\ status = "running"
    /\ history = <<New(AddCalculation, F(10), F(5))>>
    /\ Len(stdout) >= 3
    /\ SubSeq(stdout, Len(stdout) - 2, Len(stdout)) =
           <<<<"Cannot divide by zero.">>,
             <<"Please enter a non-zero divisor.\n">>,
             Prompt>>

-----------------------------------------------------------------------------
(* Properties of repr *)

\* the name of a class, as Python shows it
ClassName(cls) ==
    CASE cls = AddCalculation -> "AddCalculation"
      [] cls = SubtractCalculation -> "SubtractCalculation"
      [] cls = MultiplyCalculation -> "MultiplyCalculation"
      [] cls = DivideCalculation -> "DivideCalculation"
      [] cls = AnotherAddCalculation -> "AnotherAddCalculation"

\* the operands of the objects held, as Python shows them
Shown(v) ==
    CASE v = F(0) -> "0.0"
      [] v = F(2) -> "2.0"

\* C25: repr of a calculation of any class and operands is
\* <ClassName>(a=<a>, b=<b>); it calls no library function and never fails,
\* not even on a Divide calculation with b = 0, whose execute and str fail.
C25_ReprWithoutExecute ==
    last.op = "repr"
    => /\ last.exc = "none"
       /\ last.calls = <<>>
       /\ last.value = MkStr(ClassName(calc.cls) \o "(a=" \o Shown(calc.a)
                                 \o ", b=" \o Shown(calc.b) \o ")")
       /\ (calc.cls = DivideCalculation /\ EqZero(calc.b))
              => /\ execute(calc).exc = "ZeroDivisionError"
                 /\ str(calc).exc = "ZeroDivisionError"

C25_Witness ==
    /\ last.op = "repr"
    /\ calc = New(DivideCalculation, F(2), F(0))
    /\ last.value = MkStr("DivideCalculation(a=2.0, b=0.0)")
    /\ memo.execute # None
    /\ memo.execute.exc = "ZeroDivisionError"

-----------------------------------------------------------------------------
(* More properties of the registry *)

\* a name without capital letters
IsLowercase(name) ==
    \A i \in 1..Len(name), j \in 1..Len(UpperCase) : name[i] # UpperCase[j]

\* C26: whatever register calls were made, with names of any letter case,
\* accepted or refused, every key of the registry is lowercase (it has no
\* capital letter and equals its own lowercased form) and no two keys are
\* equal ignoring letter case.
C26_KeysLowercaseAndDistinct ==
    /\ \A i \in 1..Len(calculations) :
           /\ IsLowercase(calculations[i].key)
           /\ lower(calculations[i].key) = calculations[i].key
    /\ \A i \in 1..Len(calculations), j \in 1..Len(calculations) :
           SameIgnoringCase(calculations[i].key, calculations[j].key) => i = j

C26_Witness ==
    /\ last.op = "register"
    /\ last.name = <<"P","O","W","E","R">>
    /\ last.exc = "none"
    /\ Len(calculations) = 6
    /\ calculations[5].key = Name_modulus
    /\ calculations[6] = [key |-> Name_power, cls |-> SubtractCalculation]

\* the place of key among the items of the registry
Position(dict, key) == CHOOSE i \in 1..Len(dict) : dict[i].key = key

\* C27: the registry only grows. Whatever register and create calls follow
\* one another, a name that is bound stays bound to the same class, the names
\* keep their order, and a create call, whether it returns or fails, leaves
\* the registry as it was.
C27_RegistryOnlyGrows ==
    [][/\ Len(calculations') >= Len(calculations)
       /\ \A i \in 1..Len(calculations) :
              /\ In(calculations[i].key, calculations')
              /\ Get(calculations', calculations[i].key) = calculations[i].cls
       /\ \A i \in 1..Len(calculations), j \in 1..Len(calculations) :
              i < j => Position(calculations', calculations[i].key)
                           < Position(calculations', calculations[j].key)
       /\ last'.op = "create" => calculations' = calculations]_vars

C27_Witness ==
    /\ last.op = "create"
    /\ last.name = <<"a","d","d","s">>
    /\ last.exc = "ValueError"
    /\ calculations =
           Import(<<>>, 1)
               \o <<[key |-> Name_power, cls |-> AnotherAddCalculation],
                    [key |-> Name_modulus, cls |-> SubtractCalculation]>>

\* the texts printed so far that report a result
ResultLines == {i \in 1..Len(stdout) : stdout[i][1] = "Result: "}

\* C28: at every moment of a session, every calculation in the history
\* executes without failing (none is a Divide calculation with b = 0), so
\* the history command can show every entry, and the history has as many
\* entries as "Result:" texts were printed.
C28_HistoryEntriesExecute ==
    /\ \A i \in 1..Len(history) :
           /\ execute(history[i]).exc = "none"
           /\ ~(history[i].cls = DivideCalculation /\ EqZero(history[i].b))
           /\ result_str(history[i]).exc = "none"
    /\ display_history(history).status = "running"
    /\ Len(history) = Cardinality(ResultLines)

C28_Witness ==
    /\ history = <<New(AddCalculation, F(10), F(5)),
                   New(MultiplyCalculation, F(-2), MkFloat(1, 5, 2))>>
    /\ Cardinality(ResultLines) = 2
    /\ \E i \in 1..Len(stdout) : stdout[i] = <<"Cannot divide by zero.">>
    /\ stdout[Len(stdout)] = Prompt

\* the calculation the line the session is about to read asks for, once
\* created; the line has three words, the last two of them numbers
Asked ==
    LET words == split(strip(Head(stdin)))
    IN  create_calculation(calculations, words[1], float(words[2]).value,
                           float(words[3]).value)

\* C29: with the four built-in classes registered and no other, no input
\* makes an exception leave the loop: a calculation whose execute succeeded
\* has a string form, the process never ends with a traceback, and it ends
\* only when the session reads the exit command, meets end-of-file or is
\* interrupted.
C29_NoExceptionEscapes ==
    [][(~IsMocked /\ status = "running")
         => /\ status' \in {"running", "exit 0"}
            /\ status' = "exit 0"
                   => \/ stdin = <<>>
                      \/ Head(stdin) = Interrupt
                      \/ lower(strip(Head(stdin))) = <<"e","x","i","t">>
            /\ (/\ \E name \in BuiltinNames : Asks(name)
                /\ execute(Asked.value).exc = "none")
                   => /\ str(Asked.value).exc = "none"
                      /\ status' = "running"]_vars

C29_Witness ==
    /\ ~IsMocked
    /\ status = "running"
    /\ stdin = <<>>
    /\ history = <<New(AddCalculation, F(10), F(5))>>
    /\ \E i \in 1..Len(stdout) : stdout[i] = InvalidReport[1]
    /\ \E i \in 1..Len(stdout) : stdout[i] = UnsupportedReport("exit")[1]

\* the session goes on with the history it had, having printed texts and
\* the next prompt
GoesOn(texts) ==
    /\ Printed = texts \o <<Prompt>>
    /\ history' = history
    /\ status' = "running"

\* the pass now starting has ended the process with status 0 and the
\* farewell of the exit command
Exits ==
    /\ Printed = <<<<"Exiting calculator. Goodbye!\n">>>>
    /\ history' = history
    /\ status' = "exit 0"

\* C30: the loop classifies a line in this order. A line that is empty once
\* trimmed is passed over without a word; a line that, trimmed and
\* lowercased, is help, history or exit runs that command, so " EXIT " exits
\* and "exit 1 2" does not, being a request for the unsupported operation
\* exit; any other line that is not three words with two numbers after the
\* first is refused as invalid input, whether or not its first word is
\* registered; only a line that passed all this has its name looked up.
C30_ClassificationOrder ==
    [][Reading =>
         LET text == strip(Head(stdin))
             command == lower(text)
             words == split(text)
         IN  /\ IF text = <<>> THEN GoesOn(<<>>)
                ELSE IF command = <<"h","e","l","p">>
                THEN GoesOn(<<<<help_message>>>>)
                ELSE IF command = <<"h","i","s","t","o","r","y">>
                THEN /\ history' = history
                     /\ status' = "running"
                     /\ Printed[1] \in {<<"No calculations performed yet.">>,
                                        <<"Calculation History:">>}
                ELSE IF command = <<"e","x","i","t">> THEN Exits
                ELSE IF \/ Len(words) # 3
                        \/ float(words[2]).exc # "none"
                        \/ float(words[3]).exc # "none"
                THEN GoesOn(InvalidReport)
                ELSE IF ~In(lower(words[1]), calculations)
                THEN GoesOn(UnsupportedReport(Str(words[1])))
                ELSE /\ status' = "running"
                     /\ Printed[1][1] \in
                            {"Result: ", "Cannot divide by zero.",
                             "An error occurred during calculation: "}
             /\ Head(stdin) = <<" "," ">> => GoesOn(<<>>)
             /\ Head(stdin) = <<" ","E","X","I","T"," ">> => Exits
             /\ Head(stdin) = <<"e","x","i","t"," ","1"," ","2">>
                    => GoesOn(UnsupportedReport("exit"))
             /\ Head(stdin) = <<"m","o","d","u","l","u","s"," ","f","i","v","e"," ","2">>
                    => GoesOn(InvalidReport)
             /\ Head(stdin) = <<"a","d","d"," ","5">> => GoesOn(InvalidReport)]_vars

C30_Witness ==
    /\ status = "exit 0"
    /\ stdin = <<>>
    /\ history = <<>>
    /\ Len(stdout) = 8
    /\ SubSeq(stdout, 3, 8) =
           <<Prompt>> \o UnsupportedReport("exit") \o <<Prompt, Prompt>>
               \o <<<<"Exiting calculator. Goodbye!\n">>>>

====
